---- MODULE Spec2Model ----
(***************************************************************************)
(* The financial dashboard's data pipeline (app/utils.py) and the script   *)
(* that drives it (app/streamlit_app.py): the upload loop, read_csv_to_df, *)
(* combine_dataframes, the empty-data guard, the sidebar filters and       *)
(* agg_monthly.                                                            *)
(*                                                                         *)
(* Text is a sequence of one-character strings, so that strip() and        *)
(* title() are computed character by character.  A CSV file is a header (a  *)
(* sequence of column names) and rows of cells, one cell per column; an    *)
(* empty cell is NaN.  Amounts are decimal integer literals (money in      *)
(* whole units): sums are exact, as they are for pandas' int64 columns.    *)
(* Dates are ISO "YYYY-MM-DD" text; anything else does not parse.          *)
(***************************************************************************)
EXTENDS Integers, Sequences, FiniteSets, Bags, TLC

----------------------------------------------------------------------------
(* Bounds of the model *)

\* files in one upload batch
MaxFiles == 2
\* rows in one batch (over all its files)
MaxRows == 3
\* rows in the single file of the dirty-cell specification
MaxDirtyRows == 1

----------------------------------------------------------------------------
(* Text *)

Range(s) == {s[k] : k \in DOMAIN s}

LowerCase == << "a","b","c","d","e","f","g","h","i","j","k","l","m",
                "n","o","p","q","r","s","t","u","v","w","x","y","z" >>
UpperCase == << "A","B","C","D","E","F","G","H","I","J","K","L","M",
                "N","O","P","Q","R","S","T","U","V","W","X","Y","Z" >>
Digits == << "0","1","2","3","4","5","6","7","8","9" >>
Whitespace == {" ", "\t", "\n", "\r"}

LowerLetters == Range(LowerCase)
UpperLetters == Range(UpperCase)
DigitChars == Range(Digits)

IsLower(ch) == ch \in LowerLetters
IsUpper(ch) == ch \in UpperLetters
IsCased(ch) == IsLower(ch) \/ IsUpper(ch)
IsDigit(ch) == ch \in DigitChars

\* the upper-case letter of each lower-case letter, and the converse
UpperOf ==
    [ch \in LowerLetters |->
        UpperCase[CHOOSE k \in DOMAIN LowerCase : LowerCase[k] = ch]]
LowerOf ==
    [ch \in UpperLetters |->
        LowerCase[CHOOSE k \in DOMAIN UpperCase : UpperCase[k] = ch]]

\* str.upper() / str.lower() of one character
ToUpper(ch) == IF IsLower(ch) THEN UpperOf[ch] ELSE ch
ToLower(ch) == IF IsUpper(ch) THEN LowerOf[ch] ELSE ch

\* the value of a decimal digit
DigitValues == [ch \in DigitChars |-> (CHOOSE k \in DOMAIN Digits : Digits[k] = ch) - 1]
DigitVal(ch) == DigitValues[ch]

\* str.strip(): leading and trailing whitespace removed
RECURSIVE LStrip(_)
LStrip(s) ==
    IF s # << >> /\ Head(s) \in Whitespace THEN LStrip(Tail(s)) ELSE s

RECURSIVE RStrip(_)
RStrip(s) ==
    IF s # << >> /\ s[Len(s)] \in Whitespace
    THEN RStrip(SubSeq(s, 1, Len(s) - 1))
    ELSE s

Strip(s) == RStrip(LStrip(s))

\* str.title(): a cased character is upper-cased when the character before
\* it is not cased (or there is none) and lower-cased otherwise
Title(s) ==
    [k \in DOMAIN s |->
        IF k > 1 /\ IsCased(s[k - 1]) THEN ToLower(s[k]) ELSE ToUpper(s[k])]

----------------------------------------------------------------------------
(* Cells and their coercions (pandas) *)

\* an empty CSV cell; also the missing value of a parsed column (NaN, NaT)
NaN == << "NaN" >>
NaT == << >>

\* Series.astype(str): text stays, a missing value becomes the text "nan"
AsTypeStr(cell) == IF cell = NaN THEN << "n","a","n" >> ELSE cell

\* whether the text is a decimal integer literal: an optional sign, then
\* one or more digits
IsIntLiteral(cell) ==
    LET body == IF cell # << >> /\ Head(cell) \in {"-", "+"}
                THEN Tail(cell) ELSE cell
    IN  /\ cell # NaN
        /\ body # << >>
        /\ \A k \in DOMAIN body : IsDigit(body[k])

RECURSIVE DigitsVal(_)
DigitsVal(body) ==
    IF body = << >> THEN 0
    ELSE 10 * DigitsVal(SubSeq(body, 1, Len(body) - 1))
         + DigitVal(body[Len(body)])

\* pd.to_numeric(errors="coerce"): << n >> for a number, << >> for NaN
ToNumericCoerce(cell) ==
    IF IsIntLiteral(cell)
    THEN IF Head(cell) = "-" THEN << 0 - DigitsVal(Tail(cell)) >>
         ELSE IF Head(cell) = "+" THEN << DigitsVal(Tail(cell)) >>
         ELSE << DigitsVal(cell) >>
    ELSE << >>

\* Series.fillna(0)
FillNa0(num) == IF num = << >> THEN 0 ELSE num[1]

IsLeap(y) == (y % 4 = 0 /\ y % 100 # 0) \/ y % 400 = 0

DaysInMonth(y, m) ==
    IF m = 2 THEN (IF IsLeap(y) THEN 29 ELSE 28)
    ELSE IF m \in {4, 6, 9, 11} THEN 30 ELSE 31

\* pd.to_datetime(errors="coerce") of one cell: << y, m, d >> for a date,
\* NaT for text that is no calendar date
ToDatetimeCoerce(cell) ==
    IF /\ cell # NaN
       /\ Len(cell) = 10
       /\ cell[5] = "-" /\ cell[8] = "-"
       /\ \A k \in {1, 2, 3, 4, 6, 7, 9, 10} : IsDigit(cell[k])
    THEN LET y == DigitsVal(SubSeq(cell, 1, 4))
             m == DigitsVal(SubSeq(cell, 6, 7))
             d == DigitsVal(SubSeq(cell, 9, 10))
         IN  IF m \in 1..12 /\ d \in 1..DaysInMonth(y, m)
             THEN << y, m, d >>
             ELSE NaT
    ELSE NaT

IsNa(date) == date = NaT

\* the order of timestamps
DateLT(a, b) ==
    \/ a[1] < b[1]
    \/ a[1] = b[1] /\ a[2] < b[2]
    \/ a[1] = b[1] /\ a[2] = b[2] /\ a[3] < b[3]

DateLE(a, b) == a = b \/ DateLT(a, b)

Abs(n) == IF n < 0 THEN 0 - n ELSE n

----------------------------------------------------------------------------
(* Column names and labels *)

ColDate == << "D","a","t","e" >>
ColDateLower == << "d","a","t","e" >>
ColDateUpper == << "D","A","T","E" >>
ColCategory == << "C","a","t","e","g","o","r","y" >>
ColAccount == << "A","c","c","o","u","n","t" >>
ColType == << "T","y","p","e" >>
ColAmount == << "A","m","o","u","n","t" >>
ColYear == << "Y","e","a","r" >>
ColMonth == << "M","o","n","t","h" >>
ColSignedAmount == << "S","i","g","n","e","d","A","m","o","u","n","t" >>
ColYearMonth == << "Y","e","a","r","M","o","n","t","h" >>
ColIncome == << "I","n","c","o","m","e" >>
ColExpense == << "E","x","p","e","n","s","e" >>
ColNet == << "N","e","t" >>

Income == << "I","n","c","o","m","e" >>
Expense == << "E","x","p","e","n","s","e" >>
Unknown == << "U","n","k","n","o","w","n" >>

----------------------------------------------------------------------------
(* Data frames and exceptions *)

\* a raised exception: its class and str(e)
Exception(class, msg) == [exc |-> class, msg |-> msg]
IsException(x) == "exc" \in DOMAIN x

\* a frame: its column names and its rows (records for a loaded frame,
\* cell sequences for a freshly parsed file)
DataFrame(columns, rows) == [columns |-> columns, rows |-> rows]

\* pd.DataFrame(): no columns, no rows
EmptyDataFrame == DataFrame(<< >>, << >>)

\* DataFrame.empty: any axis of length 0
IsEmpty(df) == Len(df.columns) = 0 \/ Len(df.rows) = 0

Count(name, columns) == Cardinality({k \in DOMAIN columns : columns[k] = name})

\* the position of a column that occurs once
ColumnAt(name, columns) == CHOOSE k \in DOMAIN columns : columns[k] = name

\* the columns with `name` added when it is not there (df[name] = ...)
WithColumn(columns, name) ==
    IF Count(name, columns) = 0 THEN Append(columns, name) ELSE columns

----------------------------------------------------------------------------
(* read_csv_to_df *)

\* df.columns = [c.strip() for c in df.columns]
StripColumns(header) == [k \in DOMAIN header |-> Strip(header[k])]

\* when there is no "Date" column, every "date" and "DATE" column is renamed
RenameDate(columns) ==
    IF Count(ColDate, columns) = 0
    THEN [k \in DOMAIN columns |->
            IF columns[k] \in {ColDateLower, ColDateUpper}
            THEN ColDate ELSE columns[k]]
    ELSE columns

\* the first of Category, Account, Type, Amount that is missing and is not
\* Account: the loop raises for it; << >> when the loop raises nothing
RECURSIVE FirstMissing(_, _)
FirstMissing(required, columns) ==
    IF required = << >> THEN << >>
    ELSE IF Count(Head(required), columns) = 0 /\ Head(required) # ColAccount
         THEN << Head(required) >>
         ELSE FirstMissing(Tail(required), columns)

RequiredMessage(col) ==
    CASE col = ColCategory -> "Required column 'Category' not found."
      [] col = ColType     -> "Required column 'Type' not found."
      [] col = ColAmount   -> "Required column 'Amount' not found."

\* NormalizeType without the strip
NormalizeTypeNoStrip(cell) ==
    LET t == Title(AsTypeStr(cell))
    IN  IF t \in {Income, Expense} THEN t ELSE Expense

\* the Type column: astype(str), strip, title; what is then neither Income
\* nor Expense becomes Expense
NormalizeType(cell) ==
    LET t == Title(Strip(AsTypeStr(cell)))
    IN  IF t \in {Income, Expense} THEN t ELSE Expense

\* the Amount column: to_numeric(errors="coerce").fillna(0)
NormalizeAmount(cell) == FillNa0(ToNumericCoerce(cell))

\* r["Amount"] if r["Type"] == "Income" else -abs(r["Amount"])
SignedAmountOf(type, amount) ==
    IF type = Income THEN amount ELSE 0 - Abs(amount)

\* Date.dt.year and Date.dt.month: NaN for NaT
YearOf(date) == IF IsNa(date) THEN << >> ELSE << date[1] >>
MonthOf(date) == IF IsNa(date) THEN << >> ELSE << date[2] >>

\* one cleaned row, from the cells of a parsed row
CleanRow(columns, cells, k) ==
    LET date   == ToDatetimeCoerce(cells[ColumnAt(ColDate, columns)])
        type   == NormalizeType(cells[ColumnAt(ColType, columns)])
        amount == NormalizeAmount(cells[ColumnAt(ColAmount, columns)])
    IN  [ index        |-> k - 1,
          Date         |-> date,
          Category     |-> cells[ColumnAt(ColCategory, columns)],
          Account      |-> IF Count(ColAccount, columns) = 0 THEN Unknown
                           ELSE cells[ColumnAt(ColAccount, columns)],
          Type         |-> type,
          Amount       |-> amount,
          Year         |-> YearOf(date),
          Month        |-> MonthOf(date),
          SignedAmount |-> SignedAmountOf(type, amount) ]

\* read_csv_to_df(file): the cleaned frame, or the exception it raises
ReadCsvToDf(file) ==
    LET columns == RenameDate(StripColumns(file.header))
        missing == FirstMissing(<< ColCategory, ColAccount, ColType, ColAmount >>,
                                columns)
    IN  IF Count(ColDate, columns) = 0
        THEN Exception("KeyError", "'Date'")
        ELSE IF Count(ColDate, columns) > 1
        THEN Exception("ValueError", "cannot assemble with duplicate keys")
        ELSE IF missing # << >>
        THEN Exception("ValueError", RequiredMessage(missing[1]))
        ELSE DataFrame(
                WithColumn(WithColumn(WithColumn(WithColumn(columns,
                    ColAccount), ColYear), ColMonth), ColSignedAmount),
                [k \in DOMAIN file.rows |-> CleanRow(columns, file.rows[k], k)])

----------------------------------------------------------------------------
(* combine_dataframes *)

\* ConcatRows that keeps the first frame only
ConcatRowsFirst(dfs) == IF dfs = << >> THEN << >> ELSE Head(dfs).rows

RECURSIVE ConcatRows(_)
ConcatRows(dfs) ==
    IF dfs = << >> THEN << >> ELSE Head(dfs).rows \o ConcatRows(Tail(dfs))

RECURSIVE ConcatColumns(_)
ConcatColumns(dfs) ==
    IF dfs = << >> THEN << >>
    ELSE LET rest == ConcatColumns(Tail(dfs))
             head == Head(dfs).columns
         IN  head \o SelectSeq(rest, LAMBDA c : Count(c, head) = 0)

\* Concat without ignore_index: every row keeps the label of its own frame
ConcatKeepIndex(dfs) == DataFrame(ConcatColumns(dfs), ConcatRows(dfs))

\* pd.concat(dfs, ignore_index=True): the rows of the frames one after the
\* other, relabelled 0, 1, 2, ...
Concat(dfs) ==
    LET rows == ConcatRows(dfs)
    IN  DataFrame(ConcatColumns(dfs),
                  [k \in DOMAIN rows |-> [rows[k] EXCEPT !.index = k - 1]])

\* combined[~combined["Date"].isna()]
DropNaDate(df) ==
    DataFrame(df.columns, SelectSeq(df.rows, LAMBDA r : ~IsNa(r.Date)))

\* The arrangements sort_values("Date") can leave the rows in.  The call
\* names no sort kind, so pandas sorts with its default, quicksort, which
\* is not a stable sort: rows with equal Date may come out in any order.
RECURSIVE SortOrders(_, _)
SortOrders(rows, left) ==
    IF left = {} THEN { << >> }
    ELSE LET first == {i \in left :
                         \A j \in left : DateLE(rows[i].Date, rows[j].Date)}
         IN  UNION { { << rows[i] >> \o rest :
                         rest \in SortOrders(rows, left \ {i}) } : i \in first }

\* SortValuesDate that leaves the rows as they are
SortValuesDateUnsorted(df) == { df }

SortValuesDate(df) ==
    { DataFrame(df.columns, rows) : rows \in SortOrders(df.rows, DOMAIN df.rows) }

\* combine_dataframes(dfs): every frame the call can return
CombineDataframes(dfs) ==
    IF dfs = << >> THEN { EmptyDataFrame }
    ELSE SortValuesDate(DropNaDate(Concat(dfs)))

----------------------------------------------------------------------------
(* agg_monthly *)

\* YearMonthOf that keeps the day
YearMonthOfDay(date) == date

\* Date.dt.to_period("M").dt.to_timestamp(): the first day of the month
YearMonthOf(date) == << date[1], date[2], 1 >>

RECURSIVE SumSeq(_)
SumSeq(s) == IF s = << >> THEN 0 ELSE Head(s) + SumSeq(Tail(s))

\* the SignedAmount values of one group, in row order
GroupValues(rows, ym) ==
    LET group == SelectSeq(rows,
                    LAMBDA r : ~IsNa(r.Date) /\ YearMonthOf(r.Date) = ym)
    IN  [k \in DOMAIN group |-> group[k].SignedAmount]

\* the group keys in ascending order (groupby sorts its keys and drops NaT)
RECURSIVE SortedKeys(_)
SortedKeys(keys) ==
    IF keys = {} THEN << >>
    ELSE LET least == CHOOSE a \in keys : \A b \in keys : DateLE(a, b)
         IN  << least >> \o SortedKeys(keys \ {least})

\* MonthlyRow whose Expense is not negated
MonthlyRowExpenseSign(rows, ym, k) ==
    LET s == GroupValues(rows, ym)
    IN  [ index     |-> k - 1,
          YearMonth |-> ym,
          Income    |-> SumSeq(SelectSeq(s, LAMBDA v : v > 0)),
          Expense   |-> SumSeq(SelectSeq(s, LAMBDA v : v < 0)),
          Net       |-> SumSeq(s) ]

MonthlyRow(rows, ym, k) ==
    LET s == GroupValues(rows, ym)
    IN  [ index     |-> k - 1,
          YearMonth |-> ym,
          Income    |-> SumSeq(SelectSeq(s, LAMBDA v : v > 0)),
          Expense   |-> 0 - SumSeq(SelectSeq(s, LAMBDA v : v < 0)),
          Net       |-> SumSeq(s) ]

\* agg_monthly(df): the monthly frame, or the exception it raises
AggMonthly(df) ==
    IF Count(ColDate, df.columns) = 0
    THEN Exception("KeyError", "'Date'")
    ELSE LET keys == SortedKeys({ YearMonthOf(df.rows[k].Date) :
                        k \in {i \in DOMAIN df.rows : ~IsNa(df.rows[i].Date)} })
         IN  DataFrame(<< ColYearMonth, ColIncome, ColExpense, ColNet >>,
                       [k \in DOMAIN keys |-> MonthlyRow(df.rows, keys[k], k)])

----------------------------------------------------------------------------
(* The dashboard script: state *)

VARIABLES
    uploaded_files,   \* the files of the sidebar uploader, in upload order
    pc,               \* where the script is: read, guard, aggregate, done, stopped
    next_file,        \* the position of the upload loop
    dfs,              \* the frames read so far
    errors,           \* the messages of the files that could not be read
    combined,         \* combine_dataframes(dfs)
    df_filtered,      \* the rows the sidebar filters select
    monthly           \* agg_monthly's result

vars == << uploaded_files, pc, next_file, dfs, errors, combined, df_filtered,
           monthly >>

\* a variable the script has not assigned yet
None == [none |-> TRUE]

----------------------------------------------------------------------------
(* Input files *)

\* A header is a sequence of << column name, field >>: the name as the file
\* writes it and the field of a transaction its cells hold.
HeaderNames(h) == [k \in DOMAIN h |-> h[k][1]]
CellsFor(h, t) == [k \in DOMAIN h |-> t[h[k][2]]]

CsvFile(h, transactions) ==
    [ header |-> HeaderNames(h),
      rows   |-> [k \in DOMAIN transactions |-> CellsFor(h, transactions[k])] ]

Transaction(date, category, account, type, amount) ==
    [ date |-> date, category |-> category, account |-> account,
      type |-> type, amount |-> amount ]

HDate == << ColDate, "date" >>
HCategory == << ColCategory, "category" >>
HAccount == << ColAccount, "account" >>
HType == << ColType, "type" >>
HAmount == << ColAmount, "amount" >>

FullHeader == << HDate, HCategory, HAccount, HType, HAmount >>
NoAccountHeader == << HDate, HCategory, HType, HAmount >>
NoAmountHeader == << HDate, HCategory, HAccount, HType >>
NoTypeHeader == << HDate, HCategory, HAccount, HAmount >>
NoCategoryHeader == << HDate, HAccount, HType, HAmount >>
NoDateHeader == << HCategory, HAccount, HType, HAmount >>
NoDateNoAmountHeader == << HCategory, HAccount, HType >>
NoCategoryNoAmountHeader == << HDate, HAccount, HType >>
LowerDateHeader ==
    << << ColDateLower, "date" >>, HCategory, HAccount, HType, HAmount >>
UpperDateHeader ==
    << << ColDateUpper, "date" >>, HCategory, HAccount, HType, HAmount >>
BothDatesHeader ==
    << << ColDateLower, "date" >>, << ColDateUpper, "date" >>,
       HCategory, HAccount, HType, HAmount >>
PaddedHeader ==
    << << << " ","D","a","t","e" >>, "date" >>, HCategory, HAccount, HType,
       << << "A","m","o","u","n","t"," " >>, "amount" >> >>
LowerAmountHeader ==
    << HDate, HCategory, HAccount, HType,
       << << "a","m","o","u","n","t" >>, "amount" >> >>

Jan05 == << "2","0","2","4","-","0","1","-","0","5" >>
Jan20 == << "2","0","2","4","-","0","1","-","2","0" >>
Feb01 == << "2","0","2","4","-","0","2","-","0","1" >>
Feb30 == << "2","0","2","4","-","0","2","-","3","0" >>
NotADate == << "n","/","a" >>

Food == << "F","o","o","d" >>
Salary == << "S","a","l","a","r","y" >>
Checking == << "C","h","e","c","k","i","n","g" >>
Savings == << "S","a","v","i","n","g","s" >>

\* the transactions of the batches: an expense and an income in one month,
\* an expense in the next, a second row on one of their days (an income row
\* with a negative amount), and a row with no date
Transactions ==
    { Transaction(Jan05, Food, Checking, << "e","x","p","e","n","s","e" >>,
                  << "5","0" >>),
      Transaction(Jan20, Salary, Checking, << "I","N","C","O","M","E" >>,
                  << "2","0","0","0" >>),
      Transaction(Feb01, Food, Checking, Expense, << "3","0" >>),
      Transaction(Jan05, Salary, Savings, Income, << "-","4" >>),
      Transaction(NotADate, Food, Checking, Income, << "5" >>) }

\* the dirty cells of the one-file batches
DirtyDates == { Jan05, Feb30, NaN }
DirtyTypes ==
    { Income,
      << " ","i","n","c","o","m","e"," " >>,
      << "I","N","C","O","M","E" >>,
      << "e","x","p","e","n","s","e" >>,
      << "g","i","f","t" >>,
      << "i","n"," ","c","o","m","e" >>,
      NaN }
DirtyAmounts == { << "5","0" >>, << "-","7" >>, << "a","b","c" >>, NaN }

DirtyTransactions ==
    { Transaction(d, Food, Checking, t, a) :
        d \in DirtyDates, t \in DirtyTypes, a \in DirtyAmounts }

DirtyHeaders ==
    { FullHeader, NoAccountHeader, NoAmountHeader, NoTypeHeader,
      NoCategoryHeader, NoDateHeader, NoDateNoAmountHeader,
      NoCategoryNoAmountHeader, LowerDateHeader, UpperDateHeader,
      BothDatesHeader, PaddedHeader, LowerAmountHeader }

\* How a batch is laid out: for each file, in upload order, its header and
\* its number of rows.  The file that cannot be read has no rows.
FileShapes(n) ==
    { << FullHeader, k >> : k \in 0..n } \cup { << NoAmountHeader, 0 >> }

\* the layouts of at most f files that hold n rows
RECURSIVE Layouts(_, _)
Layouts(f, n) ==
    (IF n = 0 THEN { << >> } ELSE {}) \cup
    (IF f = 0 THEN {}
     ELSE UNION { { << shape >> \o rest : rest \in Layouts(f - 1, n - shape[2]) } :
                  shape \in FileShapes(n) })

\* the batch of a layout: the transactions dealt to its files in order
RECURSIVE Batch(_, _)
Batch(layout, ts) ==
    IF layout = << >> THEN << >>
    ELSE LET k == Head(layout)[2]
         IN  << CsvFile(Head(layout)[1], SubSeq(ts, 1, k)) >>
             \o Batch(Tail(layout), SubSeq(ts, k + 1, Len(ts)))

----------------------------------------------------------------------------
(* The dashboard script: steps *)

Start(batch) ==
    /\ uploaded_files = batch
    /\ pc = "read"
    /\ next_file = 1
    /\ dfs = << >>
    /\ errors = << >>
    /\ combined = None
    /\ df_filtered = None
    /\ monthly = None

\* any batch of at most MaxFiles files and MaxRows rows
Init ==
    \E n \in 0..MaxRows :
        \E ts \in [1..n -> Transactions], layout \in Layouts(MaxFiles, n) :
            Start(Batch(layout, ts))

\* any one file of at most MaxDirtyRows rows of dirty cells
InitDirty ==
    \E h \in DirtyHeaders, n \in 0..MaxDirtyRows :
        \E ts \in [1..n -> DirtyTransactions] :
            Start(<< CsvFile(h, ts) >>)

\* ReadFile whose loop ends at the first file that fails
ReadFileAbort ==
    /\ pc = "read"
    /\ next_file <= Len(uploaded_files)
    /\ LET r == ReadCsvToDf(uploaded_files[next_file])
       IN  IF IsException(r)
           THEN /\ errors' = Append(errors, r.msg)
                /\ next_file' = Len(uploaded_files) + 1
                /\ UNCHANGED dfs
           ELSE /\ dfs' = Append(dfs, r)
                /\ next_file' = next_file + 1
                /\ UNCHANGED errors
    /\ UNCHANGED << uploaded_files, pc, combined, df_filtered, monthly >>

\* one turn of the upload loop: the frame is appended to dfs, or the
\* exception's message to errors, and the loop goes on
ReadFile ==
    /\ pc = "read"
    /\ next_file <= Len(uploaded_files)
    /\ LET r == ReadCsvToDf(uploaded_files[next_file])
       IN  IF IsException(r)
           THEN errors' = Append(errors, r.msg) /\ UNCHANGED dfs
           ELSE dfs' = Append(dfs, r) /\ UNCHANGED errors
    /\ next_file' = next_file + 1
    /\ UNCHANGED << uploaded_files, pc, combined, df_filtered, monthly >>

\* combined = combine_dataframes(dfs), after the loop
Combine ==
    /\ pc = "read"
    /\ next_file > Len(uploaded_files)
    /\ combined' \in CombineDataframes(dfs)
    /\ pc' = "guard"
    /\ UNCHANGED << uploaded_files, next_file, dfs, errors, df_filtered, monthly >>

\* if combined.empty: st.info(...); st.stop()
Stop ==
    /\ pc = "guard"
    /\ IsEmpty(combined)
    /\ pc' = "stopped"
    /\ UNCHANGED << uploaded_files, next_file, dfs, errors, combined,
                    df_filtered, monthly >>

\* the values a multiselect offers: the distinct non-null values of a column
YearOptions(df) ==
    { df.rows[k].Year[1] : k \in {i \in DOMAIN df.rows : df.rows[i].Year # << >>} }
CategoryOptions(df) == { df.rows[k].Category : k \in DOMAIN df.rows } \ { NaN }
AccountOptions(df) == { df.rows[k].Account : k \in DOMAIN df.rows } \ { NaN }

\* combined[Year.isin(years) & Category.isin(categories) & Account.isin(accounts)]
FilterRows(df, years, categories, accounts) ==
    DataFrame(df.columns,
        SelectSeq(df.rows,
            LAMBDA r : /\ r.Year # << >> /\ r.Year[1] \in years
                       /\ r.Category \in categories
                       /\ r.Account \in accounts))

\* the sidebar filters: any selection among the offered values
ApplyFilters ==
    /\ pc = "guard"
    /\ ~IsEmpty(combined)
    /\ df_filtered' \in
         { FilterRows(combined, years, categories, accounts) :
             years \in SUBSET YearOptions(combined),
             categories \in SUBSET CategoryOptions(combined),
             accounts \in SUBSET AccountOptions(combined) }
    /\ pc' = "aggregate"
    /\ UNCHANGED << uploaded_files, next_file, dfs, errors, combined, monthly >>

\* monthly = agg_monthly(df_filtered)
AggregateMonthly ==
    /\ pc = "aggregate"
    /\ monthly' = AggMonthly(df_filtered)
    /\ pc' = "done"
    /\ UNCHANGED << uploaded_files, next_file, dfs, errors, combined, df_filtered >>

Next == ReadFile \/ Combine \/ Stop \/ ApplyFilters \/ AggregateMonthly

\* the dashboard on batches of files
Spec == Init /\ [][Next]_vars

\* the dashboard on one file of dirty cells and headers
SpecDirty == InitDirty /\ [][Next]_vars

\* the script up to its call of the combiner
NextUpload == ReadFile \/ Combine

SpecUpload == Init /\ [][NextUpload]_vars

\* agg_monthly called on the combiner's result itself, as a client of
\* utils.py that does not have the script's guard calls it
AggregateCombined ==
    /\ pc = "guard"
    /\ monthly' = AggMonthly(combined)
    /\ pc' = "done"
    /\ UNCHANGED << uploaded_files, next_file, dfs, errors, combined, df_filtered >>

NextUtils == ReadFile \/ Combine \/ AggregateCombined

\* the functions of utils.py composed without the script's guard
SpecUtils == Init /\ [][NextUtils]_vars

----------------------------------------------------------------------------
(* Properties: vocabulary *)

\* the script has left the upload loop and combined the frames
Combined == pc \in {"guard", "stopped", "aggregate", "done"}

\* a row without its index label
RowData(r) ==
    [ Date |-> r.Date, Category |-> r.Category, Account |-> r.Account,
      Type |-> r.Type, Amount |-> r.Amount, Year |-> r.Year,
      Month |-> r.Month, SignedAmount |-> r.SignedAmount ]

\* the multiset of the rows of a sequence, index labels aside
RowBag(rows) ==
    LET data == [k \in DOMAIN rows |-> RowData(rows[k])]
    IN  [x \in Range(data) |-> Cardinality({k \in DOMAIN data : data[k] = x})]

\* the sum of f over a finite set of positions
RECURSIVE SumOver(_, _)
SumOver(S, f) ==
    IF S = {} THEN 0
    ELSE LET k == CHOOSE x \in S : TRUE
         IN  f[k] + SumOver(S \ {k}, f)

\* the column names of a file as the loader sees them
Seen(file) == RenameDate(StripColumns(file.header))
Has(file, name) == Count(name, Seen(file)) > 0

\* the cell of a column in a row of the file
RawCell(file, k, name) == file.rows[k][ColumnAt(name, Seen(file))]

\* the file the script has read, in the one-file batches
TheFile == uploaded_files[1]
FileRead == next_file > 1 /\ Len(uploaded_files) = 1

SchemaErrors ==
    { "Required column 'Category' not found.",
      "Required column 'Type' not found.",
      "Required column 'Amount' not found." }

----------------------------------------------------------------------------
(* C1 *)

\* C1: in every frame the loader returns, a row of Type Income has
\* SignedAmount >= 0 and a row of Type Expense has SignedAmount <= 0.
\* (Refuted: an Income row keeps a negative Amount as its SignedAmount.)
C1_SignMatchesType ==
    \A i \in DOMAIN dfs : \A k \in DOMAIN dfs[i].rows :
        LET r == dfs[i].rows[k]
        IN  /\ r.Type = Income => r.SignedAmount >= 0
            /\ r.Type = Expense => r.SignedAmount <= 0

----------------------------------------------------------------------------
(* C2 *)

\* C2: a file that lacks a Category, Type or Amount column fails with the
\* loader's schema error ("Required column ... not found."), and a file that
\* lacks only the Account column loads, every row with Account "Unknown".
\* (Refuted: without a Date column the loader fails with KeyError 'Date'
\* before it looks for the other columns.)
C2_SchemaError ==
    FileRead =>
        /\ (~Has(TheFile, ColCategory) \/ ~Has(TheFile, ColType)
                \/ ~Has(TheFile, ColAmount))
           => /\ dfs = << >>
              /\ Len(errors) = 1
              /\ errors[1] \in SchemaErrors
        /\ (/\ Count(ColDate, Seen(TheFile)) = 1
            /\ Has(TheFile, ColCategory) /\ Has(TheFile, ColType)
            /\ Has(TheFile, ColAmount) /\ ~Has(TheFile, ColAccount))
           => /\ errors = << >>
              /\ Len(dfs) = 1
              /\ \A k \in DOMAIN dfs[1].rows : dfs[1].rows[k].Account = Unknown

----------------------------------------------------------------------------
(* C7 *)

\* C7: whether a file loads depends on its header alone, never on its
\* cells; in the frame of a file that loads there is one row per row of the
\* file, its Type is Income exactly when the cell, trimmed and title-cased,
\* is "Income" and Expense otherwise, its Amount is 0 when the cell is no
\* number, and its Date is null when the cell is no date.
C7_DirtyCellsCoerced ==
    FileRead =>
        /\ ~IsException(ReadCsvToDf([TheFile EXCEPT !.rows = << >>]))
           => errors = << >> /\ Len(dfs) = 1
        /\ dfs # << >> =>
             /\ Len(dfs[1].rows) = Len(TheFile.rows)
             /\ \A k \in DOMAIN dfs[1].rows :
                  LET r == dfs[1].rows[k]
                      type == RawCell(TheFile, k, ColType)
                      amount == RawCell(TheFile, k, ColAmount)
                      date == RawCell(TheFile, k, ColDate)
                  IN  /\ r.Type = IF type # NaN /\ Title(Strip(type)) = Income
                                  THEN Income ELSE Expense
                      /\ ~IsIntLiteral(amount) => r.Amount = 0
                      /\ ToDatetimeCoerce(date) = NaT => IsNa(r.Date)

\* a file has loaded with a row whose type is "gift", whose amount is "abc"
\* and whose date is the 30th of February
C7_Witness ==
    /\ FileRead
    /\ dfs # << >>
    /\ \E k \in DOMAIN dfs[1].rows :
         /\ RawCell(TheFile, k, ColType) = << "g","i","f","t" >>
         /\ RawCell(TheFile, k, ColAmount) = << "a","b","c" >>
         /\ RawCell(TheFile, k, ColDate) = Feb30
         /\ dfs[1].rows[k].Type = Expense
         /\ dfs[1].rows[k].Amount = 0
         /\ IsNa(dfs[1].rows[k].Date)

----------------------------------------------------------------------------
(* C3 *)

\* C3: the combined frame has no row with a null Date, its rows are in
\* non-decreasing Date order, and they are exactly the rows of the frames
\* read whose Date is not null.
C3_SortedNoNullDate ==
    Combined =>
        LET rows == combined.rows
            input == ConcatRows(dfs)
        IN  /\ \A k \in DOMAIN rows : ~IsNa(rows[k].Date)
            /\ \A j, k \in DOMAIN rows :
                 j < k => DateLE(rows[j].Date, rows[k].Date)
            /\ RowBag(rows) = RowBag(SelectSeq(input, LAMBDA r : ~IsNa(r.Date)))

\* frames whose rows are out of Date order and hold a row with no date
\* have been combined
C3_Witness ==
    /\ Combined
    /\ Len(combined.rows) >= 2
    /\ LET input == ConcatRows(dfs)
       IN  /\ \E k \in DOMAIN input : IsNa(input[k].Date)
           /\ \E j, k \in DOMAIN input :
                /\ j < k /\ ~IsNa(input[j].Date) /\ ~IsNa(input[k].Date)
                /\ DateLT(input[k].Date, input[j].Date)

----------------------------------------------------------------------------
(* C10 *)

----------------------------------------------------------------------------
(* C8 *)

\* C8: when two files have loaded, combining their frames in the other
\* order gives the same multiset of rows.
C8_CombineCommutes ==
    (Combined /\ Len(dfs) = 2) =>
        \A other \in CombineDataframes(<< dfs[2], dfs[1] >>) :
            RowBag(other.rows) = RowBag(combined.rows)

\* two frames with different rows have been combined
C8_Witness ==
    /\ Combined
    /\ Len(dfs) = 2
    /\ dfs[1].rows # << >>
    /\ dfs[2].rows # << >>
    /\ RowBag(dfs[1].rows) # RowBag(dfs[2].rows)
    /\ Len(combined.rows) >= 2

----------------------------------------------------------------------------
(* C9 *)

\* what the loader makes of each file
Outcomes(files) == [k \in DOMAIN files |-> ReadCsvToDf(files[k])]

\* the messages of the files that fail and the frames of the files that
\* load, in upload order
MessagesOf(outcomes) ==
    LET failed == SelectSeq(outcomes, IsException)
    IN  [k \in DOMAIN failed |-> failed[k].msg]

FramesOf(outcomes) == SelectSeq(outcomes, LAMBDA r : ~IsException(r))

\* C9: at every point of the upload loop, errors holds one message for each
\* file read so far that failed and dfs the frame of each one that loaded,
\* in upload order; the loop is left, and dfs combined, only when every
\* file has been read.
C9_BadFileDoesNotBlock ==
    LET read == Outcomes(SubSeq(uploaded_files, 1, next_file - 1))
    IN  /\ errors = MessagesOf(read)
        /\ dfs = FramesOf(read)
        /\ pc # "read" => next_file = Len(uploaded_files) + 1

\* a file that fails has been read before a file that loads with rows, and
\* the rows are in the combined frame
C9_Witness ==
    /\ Combined
    /\ Len(uploaded_files) = 2
    /\ IsException(ReadCsvToDf(uploaded_files[1]))
    /\ Len(errors) = 1
    /\ Len(dfs) = 1
    /\ dfs[1].rows # << >>
    /\ combined.rows # << >>

----------------------------------------------------------------------------
(* C4 *)

\* C4: agg_monthly of a frame with no rows, the frame the combiner returns
\* for no frames included, is a frame with no rows and not an error.
\* (Refuted: for pd.DataFrame(), which has no Date column, it raises
\* KeyError 'Date'.)
C4_EmptyInEmptyOut ==
    (pc = "done" /\ combined.rows = << >>) =>
        /\ ~IsException(monthly)
        /\ monthly.rows = << >>

----------------------------------------------------------------------------
(* C5 and C6 *)

\* the months that hold a row of the frame, by the rows' Year and Month
MonthsOf(df) ==
    { << df.rows[k].Year[1], df.rows[k].Month[1], 1 >> : k \in DOMAIN df.rows }

\* the positions of the rows of a month
InMonth(df, ym) ==
    { k \in DOMAIN df.rows :
        << df.rows[k].Year[1], df.rows[k].Month[1], 1 >> = ym }

SignedAmounts(df) == [k \in DOMAIN df.rows |-> df.rows[k].SignedAmount]

\* C5: the monthly frame has exactly one row for each month that holds a
\* row of the filtered frame, in ascending YearMonth order; its Income is
\* the sum of the month's positive SignedAmounts, its Expense the negated
\* sum of the negative ones, its Net the sum of all of them.
C5_MonthlyRows ==
    pc = "done" =>
        /\ ~IsException(monthly)
        /\ { monthly.rows[k].YearMonth : k \in DOMAIN monthly.rows }
             = MonthsOf(df_filtered)
        /\ \A j, k \in DOMAIN monthly.rows :
             j < k => DateLT(monthly.rows[j].YearMonth, monthly.rows[k].YearMonth)
        /\ \A k \in DOMAIN monthly.rows :
             LET m == monthly.rows[k]
                 here == InMonth(df_filtered, m.YearMonth)
                 s == SignedAmounts(df_filtered)
             IN  /\ m.Income = SumOver({i \in here : s[i] > 0}, s)
                 /\ m.Expense = 0 - SumOver({i \in here : s[i] < 0}, s)
                 /\ m.Expense >= 0
                 /\ m.Net = SumOver(here, s)

\* the monthly frame of the three rows 2024-01-05 expense 50, 2024-01-20
\* INCOME 2000 and 2024-02-01 Expense 30: January with Income 2000, Expense
\* 50 and Net 1950, February with Income 0, Expense 30 and Net -30
C5_Witness ==
    /\ pc = "done"
    /\ Len(df_filtered.rows) = 3
    /\ ~IsException(monthly)
    /\ Len(monthly.rows) = 2
    /\ monthly.rows[1].YearMonth = << 2024, 1, 1 >>
    /\ monthly.rows[1].Income = 2000
    /\ monthly.rows[1].Expense = 50
    /\ monthly.rows[1].Net = 1950
    /\ monthly.rows[2].YearMonth = << 2024, 2, 1 >>
    /\ monthly.rows[2].Income = 0
    /\ monthly.rows[2].Expense = 30
    /\ monthly.rows[2].Net = 0 - 30

\* C6: the Net column of the monthly frame sums to the sum of SignedAmount
\* over the filtered frame, and in every monthly row Net = Income - Expense.
C6_NetConserved ==
    pc = "done" =>
        /\ ~IsException(monthly)
        /\ SumOver(DOMAIN monthly.rows,
                   [k \in DOMAIN monthly.rows |-> monthly.rows[k].Net])
             = SumOver(DOMAIN df_filtered.rows, SignedAmounts(df_filtered))
        /\ \A k \in DOMAIN monthly.rows :
             monthly.rows[k].Net = monthly.rows[k].Income - monthly.rows[k].Expense

\* the filters have dropped rows, and the monthly frame of the rest has a
\* month with income and expenses
C6_Witness ==
    /\ pc = "done"
    /\ Len(df_filtered.rows) < Len(combined.rows)
    /\ ~IsException(monthly)
    /\ \E k \in DOMAIN monthly.rows :
         monthly.rows[k].Income > 0 /\ monthly.rows[k].Expense > 0

====
